---- MODULE Spec2Model ----
(***************************************************************************)
(* Sequencer (sequencer.py): single-record FASTA extraction, quality       *)
(* filtering of base calls, reverse complementation, and the main pipeline *)
(* that wires them together and writes the output file.                    *)
(*                                                                         *)
(* Representation.  A Python str is a sequence of one-character strings; a *)
(* Python list of characters is the same sequence; a list of score tokens  *)
(* is a sequence of such strings.  The outcome of a call is a record       *)
(*   [kind, val, exc, msg]  kind "value" (val is the returned object),     *)
(*                          "None" (the call returned None) or             *)
(*                          "raise" (exception exc, raised at msg).        *)
(***************************************************************************)
EXTENDS Integers, Sequences, FiniteSets, TLC

VARIABLES
    pc,                   \* position of main(), or of the direct caller
    arguments,            \* argparse namespace: the -n/-s files, -f, -r
    nucleotide_scores,    \* main's local (outcome record)
    nucleotide_sequence,  \* main's local (outcome record)
    filtered_sequence,    \* main's local (outcome record)
    output,               \* the file at the -o path (outcome record: None = never written)
    writes,               \* number of output.write calls performed
    nucleotide_data,      \* main's local (outcome record)
    error,                \* exception that ended main ("" while none)
    test,                 \* inputs of a direct call of one function (as the unit tests do)
    result                \* outcomes of the direct calls made so far

vars == << pc, arguments, nucleotide_scores, nucleotide_sequence,
           filtered_sequence, nucleotide_data, output, writes, error, test, result >>

(***************************************************************************)
(* Bounds of the model                                                     *)
(***************************************************************************)
MaxLen == 3       \* longest nucleotide / score list of a direct call
MaxSeq == 3       \* longest payload (bases, score tokens) of a file given to main
MaxFile == 6      \* longest file (characters) given to a direct ReadFileContent call

(***************************************************************************)
(* Outcomes                                                                *)
(***************************************************************************)
Val(v) == [kind |-> "value", val |-> v, exc |-> "", msg |-> ""]

None == [kind |-> "None", val |-> <<>>, exc |-> "", msg |-> ""]

Raise(e, m) == [kind |-> "raise", val |-> <<>>, exc |-> e, msg |-> m]

\* All sequences over S of length at most n
SeqUpTo(S, n) == UNION { [1..k -> S] : k \in 0..n }

(***************************************************************************)
(* ReverseComplement                                                       *)
(***************************************************************************)
\* sequence[::-1]
Reversed(s) == [i \in 1..Len(s) |-> s[Len(s) + 1 - i]]

\* faulty variant: the lower-case branches are missing
ComplementNoLower(c) ==
    IF c = "A" THEN "T"
    ELSE IF c = "G" THEN "C"
    ELSE IF c = "C" THEN "G"
    ELSE IF c = "T" THEN "A"
    ELSE c

\* faulty variant: lower case is answered in upper case
ComplementUpperOnly(c) ==
    IF c \in {"A", "a"} THEN "T"
    ELSE IF c \in {"G", "g"} THEN "C"
    ELSE IF c \in {"C", "c"} THEN "G"
    ELSE IF c \in {"T", "t"} THEN "A"
    ELSE c

\* the if/elif chain on one character
Complement(c) ==
    IF c = "A" THEN "T"
    ELSE IF c = "a" THEN "t"
    ELSE IF c = "G" THEN "C"
    ELSE IF c = "g" THEN "c"
    ELSE IF c = "C" THEN "G"
    ELSE IF c = "c" THEN "g"
    ELSE IF c = "T" THEN "A"
    ELSE IF c = "t" THEN "a"
    ELSE c

\* for c in reverse_sequence: reverse_complement += ...
RECURSIVE ComplementLoop(_, _)
ComplementLoop(reverse_sequence, reverse_complement) ==
    IF reverse_sequence = <<>> THEN reverse_complement
    ELSE ComplementLoop(Tail(reverse_sequence),
                        reverse_complement \o << Complement(Head(reverse_sequence)) >>)

ReverseComplement(sequence) == ComplementLoop(Reversed(sequence), <<>>)

(***************************************************************************)
(* ReadFileContent                                                         *)
(***************************************************************************)
\* A file on disk: exists is FALSE when open(filename, 'r') cannot open it.
File(content) == [exists |-> TRUE, content |-> content]

NoFile == [exists |-> FALSE, content |-> <<>>]

\* `for line in file`: the lines of the file, each keeping its "\n"; the last
\* line has none when the file does not end with one.  The scan is at
\* character i of a line that began at character start.
RECURSIVE LinesFrom(_, _, _)
LinesFrom(content, start, i) ==
    IF i > Len(content)
    THEN IF start > Len(content) THEN <<>> ELSE << SubSeq(content, start, Len(content)) >>
    ELSE IF content[i] = "\n"
         THEN << SubSeq(content, start, i) >> \o LinesFrom(content, i + 1, i + 1)
         ELSE LinesFrom(content, start, i + 1)

FileLines(content) == LinesFrom(content, 1, 1)

\* line.startswith('>')
StartsWithHeader(line) == Len(line) >= 1 /\ line[1] = ">"

\* line.strip('\n'): leading and trailing "\n" characters removed
RECURSIVE StripNewlines(_)
StripNewlines(line) ==
    IF line = <<>> THEN line
    ELSE IF Head(line) = "\n" THEN StripNewlines(Tail(line))
    ELSE IF line[Len(line)] = "\n" THEN StripNewlines(SubSeq(line, 1, Len(line) - 1))
    ELSE line

\* faulty variant: the line right after the first header is returned, header or not
RECURSIVE ReadLoopNoSkip(_, _)
ReadLoopNoSkip(lines, header_found) ==
    IF lines = <<>> THEN None
    ELSE IF header_found THEN Val(StripNewlines(Head(lines)))
    ELSE ReadLoopNoSkip(Tail(lines), StartsWithHeader(Head(lines)))

\* faulty variant: a blank line is not returned
RECURSIVE ReadLoopEmptyIsNone(_, _)
ReadLoopEmptyIsNone(lines, header_found) ==
    IF lines = <<>> THEN None
    ELSE IF StartsWithHeader(Head(lines)) THEN ReadLoopEmptyIsNone(Tail(lines), TRUE)
    ELSE IF header_found
         THEN IF StripNewlines(Head(lines)) = <<>> THEN None
              ELSE Val(StripNewlines(Head(lines)))
    ELSE ReadLoopEmptyIsNone(Tail(lines), header_found)

\* the for loop over the lines; falling off its end returns None
RECURSIVE ReadLoop(_, _)
ReadLoop(lines, header_found) ==
    IF lines = <<>> THEN None
    ELSE IF StartsWithHeader(Head(lines)) THEN ReadLoop(Tail(lines), TRUE)
    ELSE IF header_found THEN Val(StripNewlines(Head(lines)))
    ELSE ReadLoop(Tail(lines), header_found)

ReadFileContent(file) ==
    IF ~file.exists THEN Raise("FileNotFoundError", "open")
    ELSE ReadLoop(FileLines(file.content), FALSE)

(***************************************************************************)
(* FilterSequence                                                          *)
(***************************************************************************)
Digits == {"0", "1", "2", "3", "4", "5", "6", "7", "8", "9"}

DigitValue(c) ==
    CASE c = "0" -> 0 [] c = "1" -> 1 [] c = "2" -> 2 [] c = "3" -> 3 [] c = "4" -> 4
      [] c = "5" -> 5 [] c = "6" -> 6 [] c = "7" -> 7 [] c = "8" -> 8 [] c = "9" -> 9

Whitespace == {" ", "\n", "\t"}

\* int() ignores whitespace around the literal
RECURSIVE StripWhitespace(_)
StripWhitespace(s) ==
    IF s = <<>> THEN s
    ELSE IF Head(s) \in Whitespace THEN StripWhitespace(Tail(s))
    ELSE IF s[Len(s)] \in Whitespace THEN StripWhitespace(SubSeq(s, 1, Len(s) - 1))
    ELSE s

\* the literal without its optional sign
Unsigned(s) == IF s # <<>> /\ Head(s) \in {"+", "-"} THEN Tail(s) ELSE s

\* int(token) succeeds: optional sign, then one or more decimal digits.
\* (Digit-group underscores and non-ASCII digits are outside the alphabet used.)
IntParses(token) ==
    LET body == Unsigned(StripWhitespace(token))
    IN  body # <<>> /\ \A i \in 1..Len(body) : body[i] \in Digits

RECURSIVE DecimalValue(_, _)
DecimalValue(body, acc) ==
    IF body = <<>> THEN acc
    ELSE DecimalValue(Tail(body), 10 * acc + DigitValue(Head(body)))

\* int(token), for a token that parses
IntOf(token) ==
    LET s == StripWhitespace(token)
        magnitude == DecimalValue(Unsigned(s), 0)
    IN  IF Head(s) = "-" THEN 0 - magnitude ELSE magnitude

\* faulty variant: a score equal to the cutoff is rejected
RECURSIVE FilterLoopStrict(_, _, _, _, _)
FilterLoopStrict(nucleotide_list, quality_list, quality_cutoff, position, filtered_sequence_) ==
    IF quality_list = <<>> THEN Val(filtered_sequence_)
    ELSE LET quality_score == Head(quality_list)
         IN  IF ~IntParses(quality_score)
             THEN Raise("ValueError", "int")
             ELSE FilterLoopStrict(nucleotide_list, Tail(quality_list), quality_cutoff, position + 1,
                     IF IntOf(quality_score) > quality_cutoff
                     THEN Append(filtered_sequence_, nucleotide_list[position + 1])
                     ELSE Append(filtered_sequence_, "-"))

\* faulty variant: a score that does not parse becomes a gap
RECURSIVE FilterLoopSkipBad(_, _, _, _, _)
FilterLoopSkipBad(nucleotide_list, quality_list, quality_cutoff, position, filtered_sequence_) ==
    IF quality_list = <<>> THEN Val(filtered_sequence_)
    ELSE LET quality_score == Head(quality_list)
         IN  FilterLoopSkipBad(nucleotide_list, Tail(quality_list), quality_cutoff, position + 1,
                 IF IntParses(quality_score) /\ IntOf(quality_score) >= quality_cutoff
                 THEN Append(filtered_sequence_, nucleotide_list[position + 1])
                 ELSE Append(filtered_sequence_, "-"))

\* the for loop over quality_list; int() raising ValueError leaves the loop
RECURSIVE FilterLoop(_, _, _, _, _)
FilterLoop(nucleotide_list, quality_list, quality_cutoff, position, filtered_sequence_) ==
    IF quality_list = <<>> THEN Val(filtered_sequence_)
    ELSE LET quality_score == Head(quality_list)
         IN  IF ~IntParses(quality_score)
             THEN Raise("ValueError", "int")
             ELSE LET kept == IF IntOf(quality_score) >= quality_cutoff
                              THEN Append(filtered_sequence_, nucleotide_list[position + 1])
                              ELSE filtered_sequence_
                      gapped == IF IntOf(quality_score) < quality_cutoff
                                THEN Append(kept, "-")
                                ELSE kept
                  IN  FilterLoop(nucleotide_list, Tail(quality_list), quality_cutoff,
                                 position + 1, gapped)

\* faulty variant: the lengths are compared before the emptiness checks
FilterSequenceLengthFirst(nucleotide_list, quality_list, quality_cutoff) ==
    IF Len(nucleotide_list) # Len(quality_list) THEN Raise("ValueError", "length")
    ELSE IF nucleotide_list = <<>> THEN None
    ELSE FilterLoop(nucleotide_list, quality_list, quality_cutoff, 0, <<>>)

\* faulty variant: only a longer score list is a mismatch
FilterSequenceShortScores(nucleotide_list, quality_list, quality_cutoff) ==
    IF nucleotide_list = <<>> THEN None
    ELSE IF quality_list = <<>> THEN None
    ELSE IF Len(nucleotide_list) < Len(quality_list) THEN Raise("ValueError", "length")
    ELSE FilterLoop(nucleotide_list, quality_list, quality_cutoff, 0, <<>>)

\* emptiness checks, length check, then the loop
FilterSequence(nucleotide_list, quality_list, quality_cutoff) ==
    IF nucleotide_list = <<>> THEN None
    ELSE IF quality_list = <<>> THEN None
    ELSE IF Len(nucleotide_list) # Len(quality_list) THEN Raise("ValueError", "length")
    ELSE FilterLoop(nucleotide_list, quality_list, quality_cutoff, 0, <<>>)

(***************************************************************************)
(* main                                                                    *)
(***************************************************************************)
\* a local of main before its first assignment
Unbound == [kind |-> "unbound", val |-> <<>>, exc |-> "", msg |-> ""]

\* s.split(' '): cut at every single space; the empty string gives [''].
\* The scan is at character i of a piece that began at character start.
RECURSIVE SplitFrom(_, _, _)
SplitFrom(s, start, i) ==
    IF i > Len(s) THEN << SubSeq(s, start, Len(s)) >>
    ELSE IF s[i] = " "
         THEN << SubSeq(s, start, i - 1) >> \o SplitFrom(s, i + 1, i + 1)
         ELSE SplitFrom(s, start, i + 1)

Split(s) == SplitFrom(s, 1, 1)

\* faulty variant: the scores keep their order
ReverseScoresKeepOrder(scores) == scores

\* nucleotide_scores[::-1]
ReverseScores(scores) == Reversed(scores)

\* the characters of the list, concatenated
RECURSIVE Concat(_)
Concat(strings) ==
    IF strings = <<>> THEN <<>>
    ELSE << Head(strings) >> \o Concat(Tail(strings))

\* faulty variant: None is joined as the empty string
JoinNoneAsEmpty(filtered) ==
    IF filtered.kind = "None" THEN Val(<<>>)
    ELSE Val(Concat(filtered.val))

\* ''.join(filtered_sequence): TypeError when the argument is None
Join(filtered) ==
    IF filtered.kind = "None" THEN Raise("TypeError", "join")
    ELSE Val(Concat(filtered.val))

\* An uncaught exception leaves main.  (In the actions below a call is made
\* once and its outcome bound: \E outcome \in { Call(...) }.)
Abort(exc) ==
    /\ pc' = "aborted"
    /\ error' = exc

\* nucleotide_scores = ReadFileContent(arguments.s).split(' ')
ReadScores ==
    /\ pc = "read_scores"
    /\ \E content \in { ReadFileContent(arguments.s) } :
           \/ /\ content.kind = "raise"
              /\ Abort(content.exc)
              /\ UNCHANGED nucleotide_scores
           \/ /\ content.kind = "None"
              /\ Abort("AttributeError")
              /\ UNCHANGED nucleotide_scores
           \/ /\ content.kind = "value"
              /\ nucleotide_scores' = Val(Split(content.val))
              /\ pc' = "read_sequence"
              /\ UNCHANGED error
    /\ UNCHANGED << arguments, nucleotide_sequence, filtered_sequence, nucleotide_data,
                    output, writes, test, result >>

\* nucleotide_sequence = ReadFileContent(arguments.n)
ReadSequence ==
    /\ pc = "read_sequence"
    /\ \E content \in { ReadFileContent(arguments.n) } :
           \/ /\ content.kind = "raise"
              /\ Abort(content.exc)
              /\ UNCHANGED nucleotide_sequence
           \/ /\ content.kind # "raise"
              /\ nucleotide_sequence' = content
              /\ pc' = "reverse"
              /\ UNCHANGED error
    /\ UNCHANGED << arguments, nucleotide_scores, filtered_sequence, nucleotide_data,
                    output, writes, test, result >>

\* if (arguments.r): reverse the scores, reverse complement the sequence
ReverseIfRequested ==
    /\ pc = "reverse"
    /\ \/ /\ ~arguments.r
          /\ pc' = "to_list"
          /\ UNCHANGED << nucleotide_scores, nucleotide_sequence, error >>
       \/ /\ arguments.r
          /\ nucleotide_scores' = Val(ReverseScores(nucleotide_scores.val))
          /\ \/ /\ nucleotide_sequence.kind = "None"
                /\ Abort("TypeError")
                /\ UNCHANGED nucleotide_sequence
             \/ /\ nucleotide_sequence.kind = "value"
                /\ nucleotide_sequence' = Val(ReverseComplement(nucleotide_sequence.val))
                /\ pc' = "to_list"
                /\ UNCHANGED error
    /\ UNCHANGED << arguments, filtered_sequence, nucleotide_data, output, writes, test, result >>

\* nucleotide_sequence = list(nucleotide_sequence)
ToList ==
    /\ pc = "to_list"
    /\ \/ /\ nucleotide_sequence.kind = "None"
          /\ Abort("TypeError")
       \/ /\ nucleotide_sequence.kind = "value"
          /\ pc' = "filter"
          /\ UNCHANGED error
    /\ UNCHANGED << arguments, nucleotide_scores, nucleotide_sequence, filtered_sequence,
                    nucleotide_data, output, writes, test, result >>

\* filtered_sequence = FilterSequence(nucleotide_sequence, nucleotide_scores, signal_cutoff)
Filter ==
    /\ pc = "filter"
    /\ \E filtered \in { FilterSequence(nucleotide_sequence.val, nucleotide_scores.val, arguments.f) } :
           \/ /\ filtered.kind = "raise"
              /\ Abort(filtered.exc)
              /\ UNCHANGED filtered_sequence
           \/ /\ filtered.kind # "raise"
              /\ filtered_sequence' = filtered
              /\ pc' = "join"
              /\ UNCHANGED error
    /\ UNCHANGED << arguments, nucleotide_scores, nucleotide_sequence, nucleotide_data,
                    output, writes, test, result >>

\* nucleotide_data = ''.join(filtered_sequence)
JoinData ==
    /\ pc = "join"
    /\ \E data \in { Join(filtered_sequence) } :
           \/ /\ data.kind = "raise"
              /\ Abort(data.exc)
              /\ UNCHANGED nucleotide_data
           \/ /\ data.kind = "value"
              /\ nucleotide_data' = data
              /\ pc' = "write"
              /\ UNCHANGED error
    /\ UNCHANGED << arguments, nucleotide_scores, nucleotide_sequence, filtered_sequence,
                    output, writes, test, result >>

\* WriteOutput(output_file, nucleotide_data)
WriteOutput ==
    /\ pc = "write"
    /\ output' = Val(nucleotide_data.val)
    /\ writes' = writes + 1
    /\ pc' = "done"
    /\ UNCHANGED << arguments, nucleotide_scores, nucleotide_sequence, filtered_sequence,
                    nucleotide_data, error, test, result >>

(***************************************************************************)
(* Inputs of main                                                          *)
(***************************************************************************)
\* default of the -f option
DefaultCutoff == 20

\* cutoffs of the direct calls
Cutoffs == {DefaultCutoff, 5}

\* -f as given to main: left out, so the default applies
MainCutoffs == {DefaultCutoff}

HeaderLine == << ">", "\n" >>

MainBases == {"A", "g"}

MainTokens == { << "2", "0" >>, << "5" >>, << "x" >> }

\* the score tokens written on one line, separated by single spaces
RECURSIVE SpaceSeparated(_)
SpaceSeparated(tokens) ==
    IF tokens = <<>> THEN <<>>
    ELSE IF Len(tokens) = 1 THEN Head(tokens)
    ELSE Head(tokens) \o << " " >> \o SpaceSeparated(Tail(tokens))

\* files without a usable record, and a record holding each payload
FilesHolding(payloads) ==
    { NoFile, File(<<>>), File(HeaderLine), File(<< "A", "\n" >>) }
        \cup { File(HeaderLine \o payload \o << "\n" >>) : payload \in payloads }

SequenceFiles == FilesHolding(SeqUpTo(MainBases, MaxSeq))

ScoreFiles == FilesHolding({ SpaceSeparated(tokens) : tokens \in SeqUpTo(MainTokens, MaxSeq) })

NoCall == [fn |-> "main"]

\* the namespace before parse_args() has run
NoArguments == [n |-> NoFile, s |-> NoFile, f |-> DefaultCutoff, r |-> FALSE]

\* arguments = parser.parse_args(): the command line names the two input
\* files, the cutoff (-f, an int) and whether -r is given
ParseArgs ==
    /\ pc = "parse_args"
    /\ arguments' \in [n : SequenceFiles, s : ScoreFiles, f : MainCutoffs, r : BOOLEAN]
    /\ pc' = "read_scores"
    /\ UNCHANGED << nucleotide_scores, nucleotide_sequence, filtered_sequence, nucleotide_data,
                    output, writes, error, test, result >>

Next ==
    \/ ParseArgs
    \/ ReadScores
    \/ ReadSequence
    \/ ReverseIfRequested
    \/ ToList
    \/ Filter
    \/ JoinData
    \/ WriteOutput

Init ==
    /\ pc = "parse_args"
    /\ arguments = NoArguments
    /\ nucleotide_scores = Unbound
    /\ nucleotide_sequence = Unbound
    /\ filtered_sequence = Unbound
    /\ nucleotide_data = Unbound
    /\ output = None
    /\ writes = 0
    /\ error = ""
    /\ test = NoCall
    /\ result = <<>>

Spec == Init /\ [][Next]_vars

\* main is one thread that runs each statement in turn until it returns or raises
FairSpec == Spec /\ WF_vars(Next)

(***************************************************************************)
(* Direct calls of one function, as the unit tests make them               *)
(***************************************************************************)
\* main is not running
MainIdle ==
    /\ arguments = NoArguments
    /\ nucleotide_scores = Unbound
    /\ nucleotide_sequence = Unbound
    /\ filtered_sequence = Unbound
    /\ nucleotide_data = Unbound
    /\ output = None
    /\ writes = 0
    /\ error = ""

mainVars == << arguments, nucleotide_scores, nucleotide_sequence, filtered_sequence,
               nucleotide_data, output, writes, error >>

TestBases == {"A", "g"}

ScoreTokens == { << "2", "0" >>, << "1", "9" >>, << "5" >>, << "-", "5" >>, << "x" >>, <<>> }

InitFilter ==
    /\ pc = "call"
    /\ test \in [fn : {"FilterSequence"},
                 nucleotide_list : SeqUpTo(TestBases, MaxLen),
                 quality_list : SeqUpTo(ScoreTokens, MaxLen),
                 quality_cutoff : Cutoffs]
    /\ result = <<>>
    /\ MainIdle

CallFilterSequence ==
    /\ pc = "call"
    /\ test.fn = "FilterSequence"
    /\ result' = << FilterSequence(test.nucleotide_list, test.quality_list, test.quality_cutoff) >>
    /\ pc' = "returned"
    /\ UNCHANGED << test, mainVars >>

NextFilter == CallFilterSequence

SpecFilter == InitFilter /\ [][NextFilter]_vars

Symbols == {"A", "C", "G", "T", "a", "c", "g", "t", "-", "N"}

InitRC ==
    /\ pc = "call"
    /\ test \in [fn : {"ReverseComplement"}, sequence : SeqUpTo(Symbols, MaxLen)]
    /\ result = <<>>
    /\ MainIdle

CallReverseComplement ==
    /\ pc = "call"
    /\ test.fn = "ReverseComplement"
    /\ result' = << Val(ReverseComplement(test.sequence)) >>
    /\ pc' = "returned"
    /\ UNCHANGED << test, mainVars >>

\* ReverseComplement applied to the string the first call returned
CallReverseComplementAgain ==
    /\ pc = "returned"
    /\ test.fn = "ReverseComplement"
    /\ result' = Append(result, Val(ReverseComplement(result[1].val)))
    /\ pc' = "returned_again"
    /\ UNCHANGED << test, mainVars >>

NextRC ==
    \/ CallReverseComplement
    \/ CallReverseComplementAgain

SpecRC == InitRC /\ [][NextRC]_vars

FileAlphabet == {">", "A", "\n"}

InitRead ==
    /\ pc = "call"
    /\ test \in [fn : {"ReadFileContent"},
                 file : { File(content) : content \in SeqUpTo(FileAlphabet, MaxFile) }]
    /\ result = <<>>
    /\ MainIdle

CallReadFileContent ==
    /\ pc = "call"
    /\ test.fn = "ReadFileContent"
    /\ result' = << ReadFileContent(test.file) >>
    /\ pc' = "returned"
    /\ UNCHANGED << test, mainVars >>

NextRead == CallReadFileContent

SpecRead == InitRead /\ [][NextRead]_vars

(***************************************************************************)
(* Properties                                                              *)
(***************************************************************************)
\* The integer each well-formed score token denotes
ScoreTable ==
    (<< "2", "0" >> :> 20) @@ (<< "1", "9" >> :> 19) @@ (<< "5" >> :> 5) @@ (<< "-", "5" >> :> (0 - 5))

\* The base pairing: A<->T and G<->C within the same case
PairTable ==
    ("A" :> "T") @@ ("T" :> "A") @@ ("G" :> "C") @@ ("C" :> "G") @@
    ("a" :> "t") @@ ("t" :> "a") @@ ("g" :> "c") @@ ("c" :> "g")

Paired(c) == IF c \in DOMAIN PairTable THEN PairTable[c] ELSE c

AllIntegers(tokens) == \A i \in 1..Len(tokens) : tokens[i] \in DOMAIN ScoreTable

\* C1: for non-empty lists of equal length whose scores all parse, FilterSequence
\* returns a list of the same length whose element i is the input nucleotide
\* when int(score[i]) >= cutoff (equality retained) and the gap '-' otherwise.
C1_FilterPositionwise ==
    ( /\ pc = "returned"
      /\ test.nucleotide_list # <<>>
      /\ Len(test.nucleotide_list) = Len(test.quality_list)
      /\ AllIntegers(test.quality_list) )
    => /\ result[1].kind = "value"
       /\ Len(result[1].val) = Len(test.nucleotide_list)
       /\ \A i \in 1..Len(test.nucleotide_list) :
              result[1].val[i] = IF ScoreTable[test.quality_list[i]] >= test.quality_cutoff
                                 THEN test.nucleotide_list[i]
                                 ELSE "-"

\* a score equal to the cutoff is kept, lower ones become gaps
C1_Witness ==
    /\ pc = "returned"
    /\ test.nucleotide_list = << "A", "g", "A" >>
    /\ test.quality_list = << << "2", "0" >>, << "1", "9" >>, << "5" >> >>
    /\ test.quality_cutoff = 20
    /\ result[1] = Val(<< "A", "-", "-" >>)

LengthMismatchError == Raise("ValueError", "length")

\* C2 as stated: whenever the two lengths differ, also when exactly one list is
\* empty, FilterSequence raises the length-mismatch ValueError.
C2_MismatchAlwaysRaises ==
    (pc = "returned" /\ Len(test.nucleotide_list) # Len(test.quality_list))
    => result[1] = LengthMismatchError

\* C2 amended: when both lists are non-empty and their lengths differ,
\* FilterSequence raises the length-mismatch ValueError and returns no value.
C2_NonEmptyMismatchRaises ==
    ( /\ pc = "returned"
      /\ test.nucleotide_list # <<>>
      /\ test.quality_list # <<>>
      /\ Len(test.nucleotide_list) # Len(test.quality_list) )
    => result[1] = LengthMismatchError

C2_Witness ==
    /\ pc = "returned"
    /\ Len(test.nucleotide_list) = 2
    /\ Len(test.quality_list) = 1
    /\ AllIntegers(test.quality_list)
    /\ result[1] = LengthMismatchError

\* C3: when the nucleotide list or the score list is empty, FilterSequence
\* returns None: it neither raises nor produces a filtered list.
C3_EmptyReturnsNone ==
    (pc = "returned" /\ (test.nucleotide_list = <<>> \/ test.quality_list = <<>>))
    => result[1] = None

C3_Witness ==
    /\ pc = "returned"
    /\ test.nucleotide_list = << "A", "g" >>
    /\ test.quality_list = <<>>
    /\ result[1] = None

\* C8: for non-empty lists of equal length with at least one score token that
\* is not an integer, wherever it stands, FilterSequence raises the parse
\* ValueError and returns neither a complete nor a partial list.
C8_BadScoreRaises ==
    ( /\ pc = "returned"
      /\ test.nucleotide_list # <<>>
      /\ Len(test.nucleotide_list) = Len(test.quality_list)
      /\ ~AllIntegers(test.quality_list) )
    => result[1] = Raise("ValueError", "int")

\* the offending token comes last, after scores that were already filtered
C8_Witness ==
    /\ pc = "returned"
    /\ test.nucleotide_list = << "A", "g", "A" >>
    /\ test.quality_list = << << "2", "0" >>, << "5" >>, << "x" >> >>
    /\ result[1].kind = "raise"
    /\ result[1].val = <<>>

\* C4: ReverseComplement(s) never fails, has the length of s, and its character
\* j is the paired base of character len(s)-1-j of s; characters outside
\* ACGTacgt pass through unchanged.
C4_ReverseComplementPositionwise ==
    (pc # "call")
    => /\ result[1].kind = "value"
       /\ Len(result[1].val) = Len(test.sequence)
       /\ \A j \in 1..Len(test.sequence) :
              result[1].val[j] = Paired(test.sequence[Len(test.sequence) + 1 - j])

C4_Witness ==
    /\ pc = "returned"
    /\ test.sequence = << "a", "N", "G" >>
    /\ result[1] = Val(<< "C", "N", "t" >>)

Bases == {"A", "C", "G", "T", "a", "c", "g", "t"}

\* C5: on strings over ACGTacgt, ReverseComplement applied twice gives the string back.
C5_Involution ==
    (pc = "returned_again" /\ \A i \in 1..Len(test.sequence) : test.sequence[i] \in Bases)
    => result[2] = Val(test.sequence)

C5_Witness ==
    /\ pc = "returned_again"
    /\ test.sequence = << "A", "c", "g" >>
    /\ result[1] = Val(<< "c", "g", "T" >>)
    /\ result[2] = Val(test.sequence)

\* Lines of the called file, and which of them are header lines
CalledLines == FileLines(test.file.content)

IsHeader(line) == line # <<>> /\ Head(line) = ">"

HeaderIndexes == { i \in 1..Len(CalledLines) : IsHeader(CalledLines[i]) }

FirstHeader == CHOOSE i \in HeaderIndexes : \A j \in HeaderIndexes : i <= j

\* Indexes of the lines after the first header that are not headers
ContentIndexes ==
    IF HeaderIndexes = {} THEN {}
    ELSE { i \in (FirstHeader + 1)..Len(CalledLines) : ~IsHeader(CalledLines[i]) }

FirstContent == CHOOSE i \in ContentIndexes : \A j \in ContentIndexes : i <= j

WithoutTrailingNewline(line) ==
    IF line # <<>> /\ line[Len(line)] = "\n" THEN SubSeq(line, 1, Len(line) - 1) ELSE line

\* C6 as stated: for a file with a header line, a returned result is the line
\* immediately following the first header line, trailing newline stripped.
C6_LineRightAfterHeader ==
    (pc = "returned" /\ HeaderIndexes # {} /\ result[1].kind = "value")
    => /\ FirstHeader + 1 <= Len(CalledLines)
       /\ result[1].val = WithoutTrailingNewline(CalledLines[FirstHeader + 1])

\* C6 amended: for a file with a header line, a returned result is the first
\* line after the first header line that does not itself start with '>',
\* trailing newline stripped; lines before the first header, header lines
\* after it and all lines after the returned one are ignored.
C6_FirstContentAfterHeader ==
    (pc = "returned" /\ HeaderIndexes # {} /\ result[1].kind = "value")
    => /\ ContentIndexes # {}
       /\ result[1].val = WithoutTrailingNewline(CalledLines[FirstContent])

\* two header lines in a row, then the payload
C6_Witness ==
    /\ pc = "returned"
    /\ test.file.content = << ">", "\n", ">", "\n", "A", "\n" >>
    /\ result[1] = Val(<< "A" >>)

\* C7: ReadFileContent returns None, without raising, exactly when the file has
\* no header line or no non-header line after its first header line; otherwise
\* it returns a string, the empty string for a blank line.
C7_NoneExactlyWhenNoContent ==
    (pc = "returned")
    => /\ result[1].kind \in {"None", "value"}
       /\ (result[1] = None) <=> (ContentIndexes = {})
       /\ result[1].kind = "value" => result[1].val \in Seq(FileAlphabet \ {"\n"})

\* a blank line after the header is returned as the empty string
C7_Witness ==
    /\ pc = "returned"
    /\ test.file.content = << ">", "\n", "\n", "A" >>
    /\ result[1] = Val(<<>>)

\* What the two files given to main hold
ExtractedScores == ReadFileContent(arguments.s)

ExtractedSequence == ReadFileContent(arguments.n)

\* An input main cannot filter: an extraction without result, an empty
\* sequence or score list, lists of different lengths, a score that is no integer
BadInput ==
    LET scores == ExtractedScores
        sequence == ExtractedSequence
        tokens == Split(scores.val)
    IN  \/ scores.kind # "value"
        \/ sequence.kind # "value"
        \/ sequence.val = <<>>
        \/ tokens = <<>>
        \/ Len(sequence.val) # Len(tokens)
        \/ ~AllIntegers(tokens)

\* What holds at every point of a run of main
WrittenOnlyAfterSuccess ==
    /\ writes <= 1
    /\ writes = 0 => output = None
    /\ writes = 1 =>
          /\ pc = "done"
          /\ ~BadInput
          /\ nucleotide_scores.kind = "value"
          /\ nucleotide_sequence.kind = "value"
          /\ filtered_sequence.kind = "value"
          /\ Len(filtered_sequence.val) = Len(nucleotide_sequence.val)
          /\ output = Val(filtered_sequence.val)
    /\ (pc # "parse_args" /\ BadInput) => writes = 0 /\ pc \notin {"write", "done"}
    /\ pc = "aborted" => error # "" /\ writes = 0 /\ BadInput

\* C9: the output file is written at most once, and only after both
\* extractions, the optional reverse complement and FilterSequence gave a
\* present result; on a bad input the run ends aborted by an exception with
\* the output file never written (no empty output is written silently).
C9_WriteOnlyAfterSuccess ==
    /\ []WrittenOnlyAfterSuccess
    /\ (pc # "parse_args" /\ BadInput) ~> (pc = "aborted" /\ writes = 0)
    /\ <>(pc \in {"done", "aborted"})

\* FilterSequence returned None for an empty sequence and the join failed loudly
C9_Witness ==
    /\ pc = "aborted"
    /\ filtered_sequence = None
    /\ error = "TypeError"
    /\ ExtractedSequence = Val(<<>>)
    /\ writes = 0
    /\ output = None

\* C10: with -r, the written string is the reverse complement of what
\* filtering the original sequence with the original scores gives: the base
\* originally at position i is kept, complemented, at the mirrored position
\* exactly when its own score is >= the cutoff.
C10_ReversePreservesCorrespondence ==
    (pc = "done" /\ arguments.r)
    => LET s == ExtractedSequence.val
           q == Split(ExtractedScores.val)
           direct == FilterSequence(s, q, arguments.f)
       IN  /\ direct.kind = "value"
           /\ output = Val(ReverseComplement(Join(direct).val))
           /\ Len(output.val) = Len(s)
           /\ \A i \in 1..Len(s) :
                  output.val[Len(s) + 1 - i] =
                      IF ScoreTable[q[i]] >= arguments.f THEN Paired(s[i]) ELSE "-"

\* only the last base of the original sequence passes the cutoff
C10_Witness ==
    /\ pc = "done"
    /\ arguments.r
    /\ arguments.f = 20
    /\ ExtractedSequence = Val(<< "A", "A", "g" >>)
    /\ Split(ExtractedScores.val) = << << "5" >>, << "5" >>, << "2", "0" >> >>
    /\ output = Val(<< "c", "-", "-" >>)

====
